---------------------------- MODULE Spec2Model ----------------------------
(***************************************************************************)
(* A model of Skeleton.cpp, the "3D engine-let": dual numbers, parametric  *)
(* surfaces and their tessellation, modelling transforms, the light vector *)
(* of the shaders, the scene and the display / idle callbacks.             *)
(*                                                                         *)
(* Numbers.  A C++ float is modelled by an exact rational <<n, d>> in      *)
(* lowest terms with d > 0; every non-finite float (inf, -inf, NaN) is the *)
(* one absorbing value NonFinite.  The arithmetic operators are exact, so  *)
(* the algebraic statements below are statements up to float rounding.     *)
(* The libm functions (sinf, cosf, expf, ...) return rational              *)
(* approximations, as the real ones return rounded values.                 *)
(***************************************************************************)
EXTENDS Integers, Sequences, FiniteSets, TLC

VARIABLES dnum,      \* the dual-number calculator: operands, last operator, result
          surf,      \* one ParamSurface: its vertex stream, strip sizes, draw calls
          obj,       \* one Object: its transform fields and its latest M and Minv
          frag,      \* one run of a vertex shader: its uniforms, vertex and outputs
          scene,     \* the global Scene: objects, lights, camera
          gpu,       \* the GPU resources created and the draws of the latest Render
          glut,      \* the window system: clock, posted redisplay, exit; onIdle's tend
          idle,      \* onIdle step by step: its clock, its static tend, its loop
          tex,       \* one CheckerBoardTexture under construction: its image, its loop
          render     \* Scene::Render call by call: its local state, its loop, the GL calls

vars == <<dnum, surf, obj, frag, scene, gpu, glut, idle, tex, render>>

\* what the actions of each part leave unchanged
exceptDnum == <<render, tex, idle, surf, obj, frag, scene, gpu, glut>>

exceptSurf == <<render, tex, idle, dnum, obj, frag, scene, gpu, glut>>

exceptObj == <<render, tex, idle, dnum, surf, frag, scene, gpu, glut>>

exceptFrag == <<render, tex, idle, dnum, surf, obj, scene, gpu, glut>>

exceptScene == <<dnum, surf, obj, frag, idle, tex, render>>

exceptIdle == <<dnum, surf, obj, frag, scene, gpu, glut, tex, render>>

exceptTex == <<dnum, surf, obj, frag, scene, gpu, glut, idle, render>>

exceptFrame == <<dnum, surf, obj, frag, idle, tex>>

---------------------------------------------------------------------------
(* float arithmetic                                                        *)

Abs(x) == IF x < 0 THEN -x ELSE x

RECURSIVE GCD(_, _)
GCD(a, b) == IF b = 0 THEN a ELSE GCD(b, a % b)

\* inf, -inf and NaN: the result of x / 0 and of anything computed from it
NonFinite == <<0, 0>>

IsFinite(x) == x[2] # 0

\* the float n / d
Rat(n, d) ==
    IF d = 0 THEN NonFinite
    ELSE LET g == GCD(Abs(n), Abs(d))
             s == IF d < 0 THEN -1 ELSE 1
         IN  <<(s * n) \div g, (s * d) \div g>>

Flt(n) == <<n, 1>>

\* x + y over the least common denominator
RAdd(x, y) ==
    IF ~IsFinite(x) \/ ~IsFinite(y) THEN NonFinite
    ELSE LET g == GCD(x[2], y[2])
         IN  Rat(x[1] * (y[2] \div g) + y[1] * (x[2] \div g), (x[2] \div g) * y[2])

RNeg(x) == IF ~IsFinite(x) THEN NonFinite ELSE <<-x[1], x[2]>>

RSub(x, y) == RAdd(x, RNeg(y))

\* x * y, cancelling across the two fractions before multiplying
RMul(x, y) ==
    IF ~IsFinite(x) \/ ~IsFinite(y) THEN NonFinite
    ELSE LET g1 == GCD(Abs(x[1]), y[2])
             g2 == GCD(Abs(y[1]), x[2])
         IN  <<(x[1] \div g1) * (y[1] \div g2), (x[2] \div g2) * (y[2] \div g1)>>

\* 1 / y; 1 / 0 is inf
RInv(y) ==
    IF ~IsFinite(y) \/ y[1] = 0 THEN NonFinite
    ELSE IF y[1] < 0 THEN <<-y[2], -y[1]>> ELSE <<y[2], y[1]>>

RDiv(x, y) == RMul(x, RInv(y))

\* x < y; false when either is non-finite
RLess(x, y) == IsFinite(x) /\ IsFinite(y) /\ x[1] * y[2] < y[1] * x[2]

\* the largest integer <= x, for a finite x
Floor(x) == x[1] \div x[2]

---------------------------------------------------------------------------
(* libm                                                                    *)

\* (float)M_PI: pi rounded to the precision of the model's floats
M_PI == <<3, 1>>

Min(x, y) == IF RLess(y, x) THEN y ELSE x

\* sinf: exact at the multiples of pi/6 and linear between them.  With t the
\* fraction of the half-period and u = min(t, 1 - t), sin(pi t) is 3 u up to
\* u = 1/6 and 1/4 + 3 u / 2 from there to u = 1/2; odd half-periods negate.
sinf(x) ==
    IF ~IsFinite(x) THEN NonFinite
    ELSE LET q == RDiv(x, M_PI)
             k == Floor(q)
             t == RSub(q, Flt(k))
             u == Min(t, RSub(Flt(1), t))
             b == IF RLess(u, Rat(1, 6)) THEN RMul(Flt(3), u)
                  ELSE RAdd(Rat(1, 4), RMul(Rat(3, 2), u))
         IN  IF k % 2 = 0 THEN b ELSE RNeg(b)

cosf(x) == sinf(RAdd(x, RDiv(M_PI, Flt(2))))

\* expf: the (2,2) Pade approximant, which keeps expf(-x) = 1 / expf(x)
expf(x) ==
    LET x2 == RMul(x, x)
        x6 == RMul(Flt(6), x)
    IN  RDiv(RAdd(RAdd(Flt(12), x6), x2), RAdd(RSub(Flt(12), x6), x2))

sinhf(x) == RDiv(RSub(expf(x), expf(RNeg(x))), Flt(2))

coshf(x) == RDiv(RAdd(expf(x), expf(RNeg(x))), Flt(2))

\* logf: non-finite at x <= 0, 0 at 1, 2 (x - 1) / (x + 1) as the approximation
logf(x) ==
    IF ~IsFinite(x) \/ x[1] <= 0 THEN NonFinite
    ELSE RDiv(RMul(Flt(2), RSub(x, Flt(1))), RAdd(x, Flt(1)))

RECURSIVE IntPow(_, _)
IntPow(x, k) == IF k = 0 THEN Flt(1) ELSE RMul(x, IntPow(x, k - 1))

\* powf(x, n) for an integer-valued exponent n; powf(0, n) is inf for n < 0
powf(x, n) ==
    IF ~IsFinite(x) \/ ~IsFinite(n) THEN NonFinite
    ELSE IF n[1] >= 0 THEN IntPow(x, n[1])
    ELSE RDiv(Flt(1), IntPow(x, -n[1]))

---------------------------------------------------------------------------
(* vec2: the gradient type T of Dnum<vec2>                                 *)

vec2(x, y) == <<x, y>>

V2Add(a, b) == <<RAdd(a[1], b[1]), RAdd(a[2], b[2])>>

V2Sub(a, b) == <<RSub(a[1], b[1]), RSub(a[2], b[2])>>

\* float * vec2 and vec2 * float
V2Scale(s, a) == <<RMul(s, a[1]), RMul(s, a[2])>>

\* vec2 / float
V2Div(a, s) == <<RDiv(a[1], s), RDiv(a[2], s)>>

---------------------------------------------------------------------------
(* Dnum<vec2>                                                              *)

\* Dnum(float f0 = 0, T d0 = T(0))
Dnum(f0, d0) == [f |-> f0, d |-> d0]

\* the implicit conversion of a float to a Dnum: Dnum(f0)
DnumOf(f0) == Dnum(f0, vec2(Flt(0), Flt(0)))

DnumAdd(l, r) == Dnum(RAdd(l.f, r.f), V2Add(l.d, r.d))

DnumSub(l, r) == Dnum(RSub(l.f, r.f), V2Sub(l.d, r.d))

DnumMul(l, r) == Dnum(RMul(l.f, r.f), V2Add(V2Scale(l.f, r.d), V2Scale(r.f, l.d)))

\* the quotient rule with the gradient divided by r.f once, not twice
DnumDivOnce(l, r) ==
    Dnum(RDiv(l.f, r.f),
         V2Div(V2Sub(V2Scale(r.f, l.d), V2Scale(l.f, r.d)), r.f))

DnumDiv(l, r) ==
    Dnum(RDiv(l.f, r.f),
         V2Div(V2Div(V2Sub(V2Scale(r.f, l.d), V2Scale(l.f, r.d)), r.f), r.f))

Exp(g) == Dnum(expf(g.f), V2Scale(expf(g.f), g.d))

Sin(g) == Dnum(sinf(g.f), V2Scale(cosf(g.f), g.d))

\* the cosine with the sign of its derivative lost
CosNoMinus(g) == Dnum(cosf(g.f), V2Scale(sinf(g.f), g.d))

Cos(g) == Dnum(cosf(g.f), V2Scale(RNeg(sinf(g.f)), g.d))

Tan(g) == DnumDiv(Sin(g), Cos(g))

Sinh(g) == Dnum(sinhf(g.f), V2Scale(coshf(g.f), g.d))

Cosh(g) == Dnum(coshf(g.f), V2Scale(sinhf(g.f), g.d))

Tanh(g) == DnumDiv(Sinh(g), Cosh(g))

Log(g) == Dnum(logf(g.f), V2Div(g.d, g.f))

Pow(g, n) ==
    Dnum(powf(g.f, n), V2Scale(RMul(n, powf(g.f, RSub(n, Flt(1)))), g.d))

---------------------------------------------------------------------------
(* vec3                                                                    *)

vec3(x, y, z) == <<x, y, z>>

cross(a, b) ==
    vec3(RSub(RMul(a[2], b[3]), RMul(a[3], b[2])),
         RSub(RMul(a[3], b[1]), RMul(a[1], b[3])),
         RSub(RMul(a[1], b[2]), RMul(a[2], b[1])))

---------------------------------------------------------------------------
(* The surfaces.  eval(U, V, X, Y, Z) takes all five by reference: the      *)
(* operators return the five as they are when eval returns.                *)

Two == DnumOf(Flt(2))

One == DnumOf(Flt(1))

Zero == DnumOf(Flt(0))

SphereEval(U0, V0) ==
    LET U == DnumMul(DnumMul(U0, Two), DnumOf(M_PI))
        V == DnumMul(V0, DnumOf(M_PI))
    IN  [U |-> U, V |-> V,
         X |-> DnumMul(Cos(U), Sin(V)),
         Y |-> DnumMul(Sin(U), Sin(V)),
         Z |-> Cos(V)]

CylinderEval(U0, V0) ==
    LET U == DnumMul(DnumMul(U0, Two), DnumOf(M_PI))
        V == V0
    IN  [U |-> U, V |-> V, X |-> Cos(U), Y |-> V, Z |-> Sin(U)]

PlaneEval(U0, V0) ==
    [U |-> U0, V |-> V0,
     X |-> DnumSub(DnumMul(U0, Two), One),
     Y |-> Zero,
     Z |-> DnumSub(DnumMul(V0, Two), One)]

ParaboloidEval(U0, V0) ==
    LET s == DnumMul(DnumMul(U0, DnumOf(M_PI)), Two)
        r == V0
        X == DnumMul(Cos(s), r)
        Z == DnumMul(Sin(s), r)
    IN  [U |-> U0, V |-> V0, X |-> X, Y |-> DnumAdd(DnumMul(X, X), DnumMul(Z, Z)), Z |-> Z]

CylinderTopEval(U0, V0) ==
    LET s == DnumMul(DnumMul(U0, DnumOf(M_PI)), Two)
        r == V0
    IN  [U |-> U0, V |-> V0, X |-> DnumMul(Cos(s), r), Y |-> Zero, Z |-> DnumMul(Sin(s), r)]

Kinds == {"Sphere", "Cylinder", "Plane", "Paraboloid", "CylinderTop"}

\* the virtual call eval(U, V, X, Y, Z) of a surface of the given class
eval(kind, U, V) ==
    CASE kind = "Sphere" -> SphereEval(U, V)
      [] kind = "Cylinder" -> CylinderEval(U, V)
      [] kind = "Plane" -> PlaneEval(U, V)
      [] kind = "Paraboloid" -> ParaboloidEval(U, V)
      [] kind = "CylinderTop" -> CylinderTopEval(U, V)

\* the VertexData that GenVertexData fills in: the texture coordinates, and
\* the position and the normal from the three dual numbers that eval left
VertexData(texcoord, X, Y, Z) ==
    [position |-> vec3(X.f, Y.f, Z.f),
     normal |-> cross(vec3(X.d[1], Y.d[1], Z.d[1]), vec3(X.d[2], Y.d[2], Z.d[2])),
     texcoord |-> texcoord]

VertexDataOf(texcoord, e) == VertexData(texcoord, e.X, e.Y, e.Z)

VertexDataAfterEval(e) == VertexData(vec2(e.U.f, e.V.f), e.X, e.Y, e.Z)

\* the vertex with its texture coordinates read back from U and V after eval
GenVertexDataAfterEval(kind, u, v) ==
    VertexDataAfterEval(eval(kind, Dnum(u, vec2(Flt(1), Flt(0))),
                                   Dnum(v, vec2(Flt(0), Flt(1)))))

GenVertexData(kind, u, v) ==
    VertexDataOf(vec2(u, v), eval(kind, Dnum(u, vec2(Flt(1), Flt(0))),
                                        Dnum(v, vec2(Flt(0), Flt(1)))))

\* the inner loop of create from column j on: two vertices a column
RECURSIVE Columns(_, _, _, _, _)
Columns(kind, N, M, i, j) ==
    IF j <= M
    THEN <<GenVertexData(kind, Rat(j, M), Rat(i, N)),
           GenVertexData(kind, Rat(j, M), Rat(i + 1, N))>>
            \o Columns(kind, N, M, i, j + 1)
    ELSE <<>>

\* the outer loop of create from row i on
RECURSIVE Rows(_, _, _, _)
Rows(kind, N, M, i) ==
    IF i < N THEN Columns(kind, N, M, i, 0) \o Rows(kind, N, M, i + 1) ELSE <<>>

\* create with the inner loop one column short (j < M)
RECURSIVE ColumnsShort(_, _, _, _, _)
ColumnsShort(kind, N, M, i, j) ==
    IF j < M
    THEN <<GenVertexData(kind, Rat(j, M), Rat(i, N)),
           GenVertexData(kind, Rat(j, M), Rat(i + 1, N))>>
            \o ColumnsShort(kind, N, M, i, j + 1)
    ELSE <<>>

RECURSIVE RowsShort(_, _, _, _)
RowsShort(kind, N, M, i) ==
    IF i < N THEN ColumnsShort(kind, N, M, i, 0) \o RowsShort(kind, N, M, i + 1) ELSE <<>>

createShort(kind, N, M) ==
    [kind |-> kind, N |-> N, M |-> M,
     nVtxPerStrip |-> (M + 1) * 2,
     nStrips |-> N,
     vtxData |-> RowsShort(kind, N, M, 0),
     draws |-> <<>>, drawn |-> FALSE]

\* create with the two vertices of a column pushed in the other order
RECURSIVE ColumnsSwapped(_, _, _, _, _)
ColumnsSwapped(kind, N, M, i, j) ==
    IF j <= M
    THEN <<GenVertexData(kind, Rat(j, M), Rat(i + 1, N)),
           GenVertexData(kind, Rat(j, M), Rat(i, N))>>
            \o ColumnsSwapped(kind, N, M, i, j + 1)
    ELSE <<>>

RECURSIVE RowsSwapped(_, _, _, _)
RowsSwapped(kind, N, M, i) ==
    IF i < N THEN ColumnsSwapped(kind, N, M, i, 0) \o RowsSwapped(kind, N, M, i + 1)
    ELSE <<>>

createSwapped(kind, N, M) ==
    [kind |-> kind, N |-> N, M |-> M,
     nVtxPerStrip |-> (M + 1) * 2,
     nStrips |-> N,
     vtxData |-> RowsSwapped(kind, N, M, 0),
     draws |-> <<>>, drawn |-> FALSE]

\* ParamSurface::create(N, M) of a surface of the given class: the strip sizes
\* and the vertex stream handed to glBufferData.  N and M record the arguments.
create(kind, N, M) ==
    [kind |-> kind, N |-> N, M |-> M,
     nVtxPerStrip |-> (M + 1) * 2,
     nStrips |-> N,
     vtxData |-> Rows(kind, N, M, 0),
     draws |-> <<>>, drawn |-> FALSE]

\* the loop of Draw from strip i on: glDrawArrays(GL_TRIANGLE_STRIP, first, count)
RECURSIVE DrawArrays(_, _)
DrawArrays(g, i) ==
    IF i < g.nStrips
    THEN <<[first |-> i * g.nVtxPerStrip, count |-> g.nVtxPerStrip]>> \o DrawArrays(g, i + 1)
    ELSE <<>>

---------------------------------------------------------------------------
(* vec3, vec4 and mat4 of the framework.  A mat4 is its four rows; vectors  *)
(* are row vectors, transformed as v * M.                                   *)

\* m rounded down to four significant bits
RECURSIVE FourBits(_)
FourBits(m) == IF m < 16 THEN m ELSE 2 * FourBits(m \div 2)

\* the largest r with r * r <= n
ISqrt(n) == CHOOSE r \in 0..n : r * r <= n /\ (r + 1) * (r + 1) > n

\* sqrtf rounded down to a multiple of 1/8 of four significant bits
sqrtf(x) ==
    IF ~IsFinite(x) \/ x[1] < 0 THEN NonFinite
    ELSE Rat(FourBits(ISqrt((64 * x[1]) \div x[2])), 8)

V3Scale(v, s) == vec3(RMul(v[1], s), RMul(v[2], s), RMul(v[3], s))

V3Neg(v) == vec3(RNeg(v[1]), RNeg(v[2]), RNeg(v[3]))

V3Sub(a, b) == vec3(RSub(a[1], b[1]), RSub(a[2], b[2]), RSub(a[3], b[3]))

dot(a, b) == RAdd(RAdd(RMul(a[1], b[1]), RMul(a[2], b[2])), RMul(a[3], b[3]))

length(v) == sqrtf(dot(v, v))

\* v * (1 / length(v)): every component of normalize(0, 0, 0) is 0 * inf
normalize(v) == V3Scale(v, RInv(length(v)))

vec4(x, y, z, w) == <<x, y, z, w>>

xyz(v) == vec3(v[1], v[2], v[3])

Dot4(a, b) ==
    RAdd(RAdd(RMul(a[1], b[1]), RMul(a[2], b[2])),
         RAdd(RMul(a[3], b[3]), RMul(a[4], b[4])))

Column(m, j) == vec4(m[1][j], m[2][j], m[3][j], m[4][j])

\* vec4 * mat4
VecMat(v, m) == [j \in 1..4 |-> Dot4(v, Column(m, j))]

\* mat4 * mat4
MatMul(a, b) == [i \in 1..4 |-> VecMat(a[i], b)]

Identity ==
    <<vec4(Flt(1), Flt(0), Flt(0), Flt(0)), vec4(Flt(0), Flt(1), Flt(0), Flt(0)),
      vec4(Flt(0), Flt(0), Flt(1), Flt(0)), vec4(Flt(0), Flt(0), Flt(0), Flt(1))>>

ScaleMatrix(s) ==
    <<vec4(s[1], Flt(0), Flt(0), Flt(0)), vec4(Flt(0), s[2], Flt(0), Flt(0)),
      vec4(Flt(0), Flt(0), s[3], Flt(0)), vec4(Flt(0), Flt(0), Flt(0), Flt(1))>>

TranslateMatrix(t) ==
    <<vec4(Flt(1), Flt(0), Flt(0), Flt(0)), vec4(Flt(0), Flt(1), Flt(0), Flt(0)),
      vec4(Flt(0), Flt(0), Flt(1), Flt(0)), vec4(t[1], t[2], t[3], Flt(1))>>

\* one diagonal entry of the rotation: c * (1 - a*a) + a*a
RotDiag(c, a) == RAdd(RMul(c, RSub(Flt(1), RMul(a, a))), RMul(a, a))

\* one off-diagonal entry: a*b*(1 - c) + sgn * k * s
RotOff(c, s, a, b, k, sgn) ==
    RAdd(RMul(RMul(a, b), RSub(Flt(1), c)), RMul(Flt(sgn), RMul(k, s)))

\* the Rodrigues matrix of a unit axis w with c = cos and s = sin of the angle
Rodrigues(c, s, w) ==
    <<vec4(RotDiag(c, w[1]), RotOff(c, s, w[1], w[2], w[3], 1),
           RotOff(c, s, w[1], w[3], w[2], -1), Flt(0)),
      vec4(RotOff(c, s, w[1], w[2], w[3], -1), RotDiag(c, w[2]),
           RotOff(c, s, w[2], w[3], w[1], 1), Flt(0)),
      vec4(RotOff(c, s, w[1], w[3], w[2], 1), RotOff(c, s, w[2], w[3], w[1], -1),
           RotDiag(c, w[3]), Flt(0)),
      vec4(Flt(0), Flt(0), Flt(0), Flt(1))>>

\* RotationMatrix(angle, w) normalizes the axis it is given
RotationMatrix(angle, w) == Rodrigues(cosf(angle), sinf(angle), normalize(w))

---------------------------------------------------------------------------
(* Object                                                                   *)

ZeroMatrix == [i \in 1..4 |-> [j \in 1..4 |-> Flt(0)]]

\* Object::Object: scale (1,1,1), translation (0,0,0), rotationAxis (0,0,0),
\* rotationAngle 0.  M and Minv are the matrices the latest call of
\* SetModelingTransform wrote into its arguments; called says there was one.
Object ==
    [scale |-> vec3(Flt(1), Flt(1), Flt(1)),
     translation |-> vec3(Flt(0), Flt(0), Flt(0)),
     rotationAxis |-> vec3(Flt(0), Flt(0), Flt(0)),
     rotationAngle |-> Flt(0),
     M |-> ZeroMatrix, Minv |-> ZeroMatrix, called |-> FALSE]

\* the M of Object::SetModelingTransform
ModelingM(o) ==
    MatMul(MatMul(ScaleMatrix(o.scale), RotationMatrix(o.rotationAngle, o.rotationAxis)),
           TranslateMatrix(o.translation))

\* the Minv of Object::SetModelingTransform
ModelingMinv(o) ==
    MatMul(MatMul(TranslateMatrix(V3Neg(o.translation)),
                  RotationMatrix(RNeg(o.rotationAngle), o.rotationAxis)),
           ScaleMatrix(vec3(RInv(o.scale[1]), RInv(o.scale[2]), RInv(o.scale[3]))))

---------------------------------------------------------------------------
(* The vertex shaders: the vectors they compute for one vertex.             *)

\* mat4 * vec4 of GLSL
MatVec(m, v) == [i \in 1..4 |-> Dot4(m[i], v)]

\* vec4(vtxPos, 1) * M
WorldPos(vtxPos, M) == VecMat(vec4(vtxPos[1], vtxPos[2], vtxPos[3], Flt(1)), M)

\* wEye * wPos.w - wPos.xyz
ViewVector(wEye, wPos) == V3Sub(V3Scale(wEye, wPos[4]), xyz(wPos))

\* (Minv * vec4(vtxNorm, 0)).xyz
WorldNormal(Minv, vtxNorm) ==
    xyz(MatVec(Minv, vec4(vtxNorm[1], vtxNorm[2], vtxNorm[3], Flt(0))))

\* if (dot(N, V) < 0) N = -N
FaceForward(N, V) == IF RLess(dot(N, V), Flt(0)) THEN V3Neg(N) ELSE N

\* the Gouraud shader: the argument of normalize in
\* L = normalize(lights[i].wLightPos.xyz * wPos.w - wPos.xyz * lights[i].wLightPos.w)
GouraudLight(wLightPos, wPos) ==
    V3Sub(V3Scale(xyz(wLightPos), wPos[4]), V3Scale(xyz(wPos), wLightPos[4]))

\* the Phong shader:
\* wLight[i] = lights[i].wLightPos.xyz * wPos.w - wPos.xyz * lights[i].wLightPos.w
PhongLight(wLightPos, wPos) ==
    V3Sub(V3Scale(xyz(wLightPos), wPos[4]), V3Scale(xyz(wPos), wLightPos[4]))

\* the NPR shader with the light taken as a point whatever its w
NPRLightAsPoint(wLightPos, wPos) == V3Sub(xyz(wLightPos), xyz(wPos))

\* the NPR shader: wLight = wLightPos.xyz * wPos.w - wPos.xyz * wLightPos.w
NPRLight(wLightPos, wPos) ==
    V3Sub(V3Scale(xyz(wLightPos), wPos[4]), V3Scale(xyz(wPos), wLightPos[4]))

\* no program is in use: the uniforms and the outputs of main are unset
FragIdle ==
    [shader |-> "none",
     MVP |-> ZeroMatrix, M |-> ZeroMatrix, Minv |-> ZeroMatrix,
     wEye |-> vec3(Flt(0), Flt(0), Flt(0)),
     lights |-> <<>>, nLights |-> 0,
     ran |-> FALSE,
     vtxPos |-> vec3(Flt(0), Flt(0), Flt(0)),
     wPos |-> vec4(Flt(0), Flt(0), Flt(0), Flt(0)),
     gl_Position |-> vec4(Flt(0), Flt(0), Flt(0), Flt(0)),
     wLight |-> <<>>, L |-> <<>>,
     wView |-> vec3(Flt(0), Flt(0), Flt(0)),
     wNormal |-> vec3(Flt(0), Flt(0), Flt(0))]

\* GouraudShader::Bind and PhongShader::Bind: the matrices, the eye, nLights
\* and the wLightPos of every light (materials and textures apart)
BindLights(shader, state) ==
    [FragIdle EXCEPT !.shader = shader,
                     !.MVP = state.MVP, !.M = state.M, !.Minv = state.Minv,
                     !.wEye = state.wEye,
                     !.nLights = Len(state.lights), !.lights = state.lights]

\* NPRShader::Bind: lights[0].wLightPos is the only light uploaded, nLights is not
BindFirstLight(shader, state) ==
    [FragIdle EXCEPT !.shader = shader,
                     !.MVP = state.MVP, !.M = state.M, !.Minv = state.Minv,
                     !.wEye = state.wEye,
                     !.lights = <<state.lights[1]>>]

GouraudOut(u, vtxPos, vtxNorm, wPos, V) ==
    [u EXCEPT !.ran = TRUE, !.vtxPos = vtxPos, !.wPos = wPos,
              !.gl_Position = WorldPos(vtxPos, u.MVP),
              !.wLight = [i \in 1..u.nLights |-> GouraudLight(u.lights[i], wPos)],
              !.L = [i \in 1..u.nLights |-> normalize(GouraudLight(u.lights[i], wPos))],
              !.wView = V,
              !.wNormal = FaceForward(normalize(WorldNormal(u.Minv, vtxNorm)), V)]

GouraudAt(u, vtxPos, vtxNorm, wPos) ==
    GouraudOut(u, vtxPos, vtxNorm, wPos, normalize(ViewVector(u.wEye, wPos)))

\* main() of the Gouraud vertex shader, radiance apart
GouraudMain(u, vtxPos, vtxNorm) == GouraudAt(u, vtxPos, vtxNorm, WorldPos(vtxPos, u.M))

PhongOut(u, vtxPos, vtxNorm, wPos) ==
    [u EXCEPT !.ran = TRUE, !.vtxPos = vtxPos, !.wPos = wPos,
              !.gl_Position = WorldPos(vtxPos, u.MVP),
              !.wLight = [i \in 1..u.nLights |-> PhongLight(u.lights[i], wPos)],
              !.wView = ViewVector(u.wEye, wPos),
              !.wNormal = WorldNormal(u.Minv, vtxNorm)]

\* main() of the Phong vertex shader
PhongMain(u, vtxPos, vtxNorm) == PhongOut(u, vtxPos, vtxNorm, WorldPos(vtxPos, u.M))

NPROut(u, vtxPos, vtxNorm, wPos) ==
    [u EXCEPT !.ran = TRUE, !.vtxPos = vtxPos, !.wPos = wPos,
              !.gl_Position = WorldPos(vtxPos, u.MVP),
              !.wLight = <<NPRLight(u.lights[1], wPos)>>,
              !.wView = ViewVector(u.wEye, wPos),
              !.wNormal = WorldNormal(u.Minv, vtxNorm)]

\* main() of the NPR vertex shader
NPRMain(u, vtxPos, vtxNorm) == NPROut(u, vtxPos, vtxNorm, WorldPos(vtxPos, u.M))

---------------------------------------------------------------------------
(* Camera                                                                   *)

\* tan of libm
tanf(x) == RDiv(sinf(x), cosf(x))

windowWidth == 600

windowHeight == 600

\* Camera::Camera; the vec3 members are zero until Build sets them
Camera ==
    [wEye |-> vec3(Flt(0), Flt(0), Flt(0)),
     wLookat |-> vec3(Flt(0), Flt(0), Flt(0)),
     wVup |-> vec3(Flt(0), Flt(0), Flt(0)),
     asp |-> Rat(windowWidth, windowHeight),
     fov |-> RDiv(RMul(Flt(75), M_PI), Flt(180)),
     fp |-> Flt(1), bp |-> Flt(100)]

\* the rotation part of the view matrix: columns u, v, w
ViewBasis(u, v, w) ==
    <<vec4(u[1], v[1], w[1], Flt(0)), vec4(u[2], v[2], w[2], Flt(0)),
      vec4(u[3], v[3], w[3], Flt(0)), vec4(Flt(0), Flt(0), Flt(0), Flt(1))>>

ViewOf(wEye, u, w) == MatMul(TranslateMatrix(V3Neg(wEye)), ViewBasis(u, cross(w, u), w))

ViewAlong(cam, w) == ViewOf(cam.wEye, normalize(cross(cam.wVup, w)), w)

\* Camera::V
CameraV(cam) == ViewAlong(cam, normalize(V3Sub(cam.wEye, cam.wLookat)))

ProjectionOf(t, asp, fp, bp) ==
    <<vec4(RInv(RMul(t, asp)), Flt(0), Flt(0), Flt(0)),
      vec4(Flt(0), RInv(t), Flt(0), Flt(0)),
      vec4(Flt(0), Flt(0), RDiv(RNeg(RAdd(fp, bp)), RSub(bp, fp)), Flt(-1)),
      vec4(Flt(0), Flt(0), RDiv(RMul(Flt(-2), RMul(fp, bp)), RSub(bp, fp)), Flt(0))>>

\* Camera::P
CameraP(cam) == ProjectionOf(tanf(RDiv(cam.fov, Flt(2))), cam.asp, cam.fp, cam.bp)

---------------------------------------------------------------------------
(* Scene                                                                    *)

tessellationLevel == 20

\* a Geometry made by "new <kind>()": its vertex array, its vertex buffer and
\* the strip sizes that create() sets for the default resolution
NewGeometry(name, kind) ==
    [name |-> name, kind |-> kind, vao |-> <<name, "vao">>, vbo |-> <<name, "vbo">>,
     nVtxPerStrip |-> (tessellationLevel + 1) * 2, nStrips |-> tessellationLevel]

\* the geometries of Build in the order they are made
Geometries ==
    <<NewGeometry("plane", "Plane"), NewGeometry("cilinder0", "Cylinder"),
      NewGeometry("sphere1", "Sphere"), NewGeometry("cilinder1", "Cylinder"),
      NewGeometry("sphere2", "Sphere"), NewGeometry("cilinder2", "Cylinder"),
      NewGeometry("sphere3", "Sphere"), NewGeometry("cylindertop", "CylinderTop"),
      NewGeometry("paraboloid", "Paraboloid")>>

GeometryNamed(name) == CHOOSE g \in {Geometries[k] : k \in 1..Len(Geometries)} : g.name = name

\* one GPU resource: what made it and how often it was released
Resource(id, kind, owner) == [id |-> id, kind |-> kind, owner |-> owner, released |-> 0]

\* the GPU resources Build creates: three programs, two textures, and the
\* vertex array and vertex buffer of each geometry
BuildResources ==
    {Resource(<<n, "program">>, "program", n) :
         n \in {"phongShader", "gouraudShader", "nprShader"}}
    \cup {Resource(<<n, "texture">>, "texture", n) : n \in {"texture4x8", "texture15x20"}}
    \cup {Resource(Geometries[k].vao, "vao", Geometries[k].name) : k \in 1..Len(Geometries)}
    \cup {Resource(Geometries[k].vbo, "vbo", Geometries[k].name) : k \in 1..Len(Geometries)}

\* new Object(shader, material, texture, geometry) followed by the scale that
\* Build assigns
NewObject(shader, material, texture, geometry, scale) ==
    [shader |-> shader, material |-> material, texture |-> texture,
     geometry |-> geometry,
     scale |-> scale, translation |-> Object.translation,
     rotationAxis |-> Object.rotationAxis, rotationAngle |-> Object.rotationAngle]

BuildObjects ==
    <<NewObject("phongShader", "material0", "texture4x8", "plane",
                vec3(Flt(16), Flt(16), Flt(16))),
      NewObject("phongShader", "material0", "texture15x20", "cilinder0",
                vec3(Flt(2), Rat(1, 2), Flt(2))),
      NewObject("phongShader", "material0", "texture4x8", "cylindertop",
                vec3(Rat(201, 100), Rat(1, 4), Rat(201, 100))),
      NewObject("phongShader", "material0", "texture15x20", "sphere1",
                vec3(Rat(1, 2), Rat(1, 2), Rat(1, 2))),
      NewObject("phongShader", "material0", "texture15x20", "cilinder1",
                vec3(Rat(3, 10), Flt(2), Rat(3, 10))),
      NewObject("phongShader", "material0", "texture15x20", "sphere2",
                vec3(Rat(1, 2), Rat(1, 2), Rat(1, 2))),
      NewObject("phongShader", "material0", "texture15x20", "cilinder2",
                vec3(Rat(3, 10), Flt(2), Rat(3, 10))),
      NewObject("phongShader", "material0", "texture15x20", "sphere3",
                vec3(Rat(1, 2), Rat(1, 2), Rat(1, 2))),
      NewObject("phongShader", "material1", "texture15x20", "paraboloid",
                vec3(Flt(2), Rat(3, 2), Flt(2)))>>

Light(wLightPos, La, Le) == [wLightPos |-> wLightPos, La |-> La, Le |-> Le]

\* lights.resize(3) and the three assignments to each
BuildLights ==
    <<Light(vec4(Flt(5), Flt(5), Flt(4), Flt(1)),
            vec3(Rat(1, 10), Rat(1, 10), Flt(1)), vec3(Flt(3), Flt(0), Flt(0))),
      Light(vec4(Flt(5), Flt(10), Flt(20), Flt(1)),
            vec3(Rat(1, 5), Rat(1, 5), Rat(1, 5)), vec3(Flt(0), Flt(3), Flt(0))),
      Light(vec4(Flt(-5), Flt(5), Flt(5), Flt(1)),
            vec3(Rat(1, 10), Rat(1, 10), Rat(1, 10)), vec3(Flt(0), Flt(0), Flt(3)))>>

BuildCamera ==
    [Camera EXCEPT !.wEye = vec3(Flt(10), Flt(3), Flt(10)),
                   !.wLookat = vec3(Flt(0), Flt(1), Flt(0)),
                   !.wVup = vec3(Flt(0), Flt(1), Flt(0))]

\* the global Scene before Build
SceneIdle == [built |-> FALSE, objects |-> <<>>, lights |-> <<>>, camera |-> Camera]

\* Scene::Build
Build(sc) ==
    [sc EXCEPT !.built = TRUE,
               !.objects = sc.objects \o BuildObjects,
               !.lights = BuildLights,
               !.camera = BuildCamera]

\* Shader::Bind of the object's shader: the uniforms it uploads from the state
Bind(shader, state) ==
    [shader |-> shader,
     MVP |-> state.MVP, M |-> state.M, Minv |-> state.Minv, wEye |-> state.wEye,
     material |-> state.material, texture |-> state.texture,
     nLights |-> IF shader = "nprShader" THEN 0 ELSE Len(state.lights),
     lights |-> IF shader = "nprShader" THEN <<state.lights[1]>> ELSE state.lights]

\* Object::Draw without its two assignments of material and texture
DrawStateNoMaterial(o, state, M, Minv) ==
    [state EXCEPT !.M = M, !.Minv = Minv,
                  !.MVP = MatMul(MatMul(M, state.V), state.P)]

\* the RenderState of Object::Draw once M and Minv are known
DrawState(o, state, M, Minv) ==
    [state EXCEPT !.M = M, !.Minv = Minv,
                  !.MVP = MatMul(MatMul(M, state.V), state.P),
                  !.material = o.material, !.texture = o.texture]

\* Object::Draw: the uniforms bound, then the strips of the geometry drawn
ObjectDraw(o, state) ==
    [bound |-> Bind(o.shader, DrawState(o, state, ModelingM(o), ModelingMinv(o))),
     geometry |-> o.geometry,
     strips |-> DrawArrays(GeometryNamed(o.geometry), 0)]

\* the RenderState that Scene::Render fills in before the loop
RenderState(sc) ==
    [MVP |-> ZeroMatrix, M |-> ZeroMatrix, Minv |-> ZeroMatrix,
     V |-> CameraV(sc.camera), P |-> CameraP(sc.camera),
     material |-> "", texture |-> "",
     lights |-> sc.lights, wEye |-> sc.camera.wEye]

RenderLoop(objects, state) == [i \in 1..Len(objects) |-> ObjectDraw(objects[i], state)]

\* Scene::Render: one draw for each object, in order
Render(sc) == RenderLoop(sc.objects, RenderState(sc))

\* the assignments of onDisplay to objects[i] (i from 0)
Place(objects, i, angle, axis, translation) ==
    [objects EXCEPT ![i + 1] = [@ EXCEPT !.rotationAngle = angle,
                                         !.rotationAxis = axis,
                                         !.translation = translation]]

\* temp = vec4(x, y, z, 1) * M; vec3(temp.x, temp.y, temp.z)
Image(x, y, z, M) == xyz(VecMat(vec4(x, y, z, Flt(1)), M))

AxisY == vec3(Flt(0), Flt(1), Flt(0))

\* objects[0]: translation and axis only; objects[1..3]
DisplayBase(objects) ==
    Place(Place(Place([objects EXCEPT ![1] = [@ EXCEPT
                                                 !.translation = vec3(Flt(0), Rat(-7, 2), Flt(0)),
                                                 !.rotationAxis = AxisY]],
                      1, Flt(0), AxisY, vec3(Flt(0), Rat(-7, 2), Flt(0))),
                2, Flt(0), AxisY, vec3(Flt(0), Flt(-3), Flt(0))),
          3, Flt(0), AxisY, vec3(Flt(0), Flt(-3), Flt(0)))

\* objects[4] at the image of (0,0,0) under the M of objects[3]
DisplayJoint4(objects, ttime) ==
    Place(objects, 4, ttime, vec3(Rat(3, 10), Flt(1), Rat(3, 10)),
          Image(Flt(0), Flt(0), Flt(0), ModelingM(objects[4])))

\* objects[5] placed with the M that objects[3] left behind
DisplayJoint5StaleM(objects) ==
    Place(objects, 5, Flt(0), AxisY, Image(Flt(0), Flt(1), Flt(0), ModelingM(objects[4])))

\* objects[5] at the image of (0,1,0) under the M of objects[4]
DisplayJoint5(objects) ==
    Place(objects, 5, Flt(0), AxisY, Image(Flt(0), Flt(1), Flt(0), ModelingM(objects[5])))

\* objects[6] at the image of (0,0,0) under the M of objects[5]
DisplayJoint6(objects, ttime) ==
    Place(objects, 6, ttime, vec3(Rat(-1, 2), Flt(1), Rat(-1, 2)),
          Image(Flt(0), Flt(0), Flt(0), ModelingM(objects[6])))

DisplayPlace78(objects, ttime, temp) ==
    Place(Place(objects, 7, Flt(0), AxisY, temp),
          8, ttime, vec3(Rat(-3, 10), Rat(1, 2), Rat(-1, 10)), temp)

\* objects[7] and objects[8] at the image of (0,1,0) under the M of objects[6]
DisplayJoint78(objects, ttime) ==
    DisplayPlace78(objects, ttime, Image(Flt(0), Flt(1), Flt(0), ModelingM(objects[7])))

\* the objects as onDisplay leaves them
DisplayObjects(objects, ttime) ==
    DisplayJoint78(DisplayJoint6(DisplayJoint5(DisplayJoint4(DisplayBase(objects), ttime)),
                                 ttime),
                   ttime)

\* a light appended where an element is to be assigned
DisplayLightPushed(lights, temp) ==
    Append(lights, Light(vec4(temp[1], temp[2], temp[3], Flt(1)),
                         vec3(Flt(0), Flt(0), Flt(0)), vec3(Flt(0), Flt(0), Flt(0))))

\* scene.lights[0].wLightPos = vec4(temp.x, temp.y, temp.z, 1)
DisplayLight(lights, temp) ==
    [lights EXCEPT ![1].wLightPos = vec4(temp[1], temp[2], temp[3], Flt(1))]

\* rotMat3 for eye (8,3,8) and lookat (0,1,0), c and s of ttime / 2
EyeOf(c, s) ==
    vec3(RAdd(RAdd(RMul(Flt(8), c), RMul(Flt(8), s)), Flt(0)),
         Flt(3),
         RAdd(RAdd(RMul(Flt(-8), s), RMul(Flt(8), c)), Flt(0)))

DisplayEye(half) == EyeOf(cosf(half), sinf(half))

\* the scene once the objects are placed: light 0 at the image of (0,0.6,0)
\* under the M of objects[8], and the eye
DisplayRest(sc, objects, ttime) ==
    [sc EXCEPT !.objects = objects,
               !.lights = DisplayLight(sc.lights,
                              Image(Flt(0), Rat(3, 5), Flt(0), ModelingM(objects[9]))),
               !.camera.wEye = DisplayEye(RDiv(ttime, Flt(2)))]

\* the scene as onDisplay leaves it, after Render
DisplayUpdate(sc, ttime) == DisplayRest(sc, DisplayObjects(sc.objects, ttime), ttime)

---------------------------------------------------------------------------
(* float, bit for bit.  In onIdle the rounding of float decides whether the *)
(* loop advances, so its times are IEEE-754 binary32 values: <<m, e>> is    *)
(* m * 2^e with 2^23 <= m < 2^24, and <<0, 0>> is 0.  Times are never       *)
(* negative.                                                                *)

F32Zero == <<0, 0>>

\* M * 2^E (and, when sticky, a little more) rounded to nearest, ties to even
RECURSIVE F32Round(_, _, _)
F32Round(M, E, sticky) ==
    IF M = 0 THEN F32Zero
    ELSE IF M >= 2^25 THEN F32Round(M \div 2, E + 1, sticky \/ M % 2 = 1)
    ELSE IF M < 2^23 THEN F32Round(M * 2, E - 1, sticky)
    ELSE IF M < 2^24 THEN <<M, E>>
    ELSE IF ~(M % 2 = 1 /\ (sticky \/ (M \div 2) % 2 = 1)) THEN <<M \div 2, E + 1>>
    ELSE IF (M \div 2) + 1 = 2^24 THEN <<2^23, E + 2>>
    ELSE <<(M \div 2) + 1, E + 1>>

\* (float)n of an int n >= 0
F32FromInt(n) == F32Round(n, 0, FALSE)

\* x < y
F32Less(x, y) ==
    IF y[1] = 0 THEN FALSE
    ELSE IF x[1] = 0 THEN TRUE
    ELSE x[2] < y[2] \/ (x[2] = y[2] /\ x[1] < y[1])

\* the significand of small, with three guard bits, shifted right by sh
Aligned(small, sh) == IF sh > 27 THEN 0 ELSE (small[1] * 8) \div 2^sh

\* whether that shift dropped a one
Dropped(small, sh) == IF sh > 27 THEN TRUE ELSE (small[1] * 8) % 2^sh # 0

\* big + small for big's exponent >= small's
F32AddOrdered(big, small) ==
    F32Round(big[1] * 8 + Aligned(small, big[2] - small[2]), big[2] - 3,
             Dropped(small, big[2] - small[2]))

\* x + y
F32Add(x, y) ==
    IF x[1] = 0 THEN y
    ELSE IF y[1] = 0 THEN x
    ELSE IF x[2] >= y[2] THEN F32AddOrdered(x, y) ELSE F32AddOrdered(y, x)

\* x - y for x >= y
F32Sub(x, y) ==
    IF y[1] = 0 THEN x
    ELSE F32Round(x[1] * 8 - Aligned(y, x[2] - y[2])
                      - (IF Dropped(y, x[2] - y[2]) THEN 1 ELSE 0),
                  x[2] - 3, Dropped(y, x[2] - y[2]))

\* the quotient q, remainder r of a significand by d, one more bit at a time
RECURSIVE F32LongDivision(_, _, _, _)
F32LongDivision(q, r, d, E) ==
    IF q >= 2^25 THEN F32Round(q, E, r # 0)
    ELSE F32LongDivision(2 * q + (2 * r) \div d, (2 * r) % d, d, E - 1)

\* x / d for a float d that is a whole number, as 1000.0f is
F32Div(x, d) ==
    IF x[1] = 0 THEN F32Zero ELSE F32LongDivision(x[1] \div d, x[1] % d, d, x[2])

\* fmin
F32Min(x, y) == IF F32Less(y, x) THEN y ELSE x

\* const float dt = 0.1f, which is 13421773 * 2^-27
dt == <<13421773, -27>>

\* glutGet(GLUT_ELAPSED_TIME) / 1000.0f
Seconds(elapsed) == F32Div(F32FromInt(elapsed), 1000)

\* no sub-step made yet
NoStep == [start |-> F32Zero, Dt |-> F32Zero, end |-> F32Zero]

\* onIdle has returned at clock time elapsed
IdleAt(elapsed) ==
    [elapsed |-> elapsed, tend |-> Seconds(elapsed), tstart |-> Seconds(elapsed),
     t |-> Seconds(elapsed), pc |-> "out", n |-> 0, calls |-> 0, last |-> NoStep,
     redisplay |-> FALSE]

MaxN == 3           \* rows of a tessellation: 1..MaxN
MaxM == 4           \* columns of a tessellation: 1..MaxM

\* ParamSurface(): no strips yet
SurfIdle ==
    [kind |-> "none", N |-> 0, M |-> 0, nVtxPerStrip |-> 0, nStrips |-> 0,
     vtxData |-> <<>>, draws |-> <<>>, drawn |-> FALSE]

DnumIdle == [a |-> Zero, b |-> Zero, op |-> "off", n |-> Flt(0), val |-> Zero]

\* the parts a specification leaves alone stay as constructed
DnumOff == dnum = DnumIdle

ObjOff == obj = Object

SurfOff == surf = SurfIdle

FragOff == frag = FragIdle

\* no resource yet, nothing drawn
GpuIdle == [resources |-> {}, draws |-> <<>>]

\* the clock at 0, the first display posted by the window's creation
GlutIdle == [elapsed |-> 0, redisplay |-> TRUE, exited |-> FALSE, tend |-> Flt(0)]

SceneOff == scene = SceneIdle /\ gpu = GpuIdle /\ glut = GlutIdle

IdleOff == idle = IdleAt(0)

\* no texture constructor has run
TexIdle ==
    [pc |-> "off", width |-> 0, height |-> 0, x |-> 0, y |-> 0,
     image |-> <<>>, writes |-> <<>>, overrun |-> FALSE, created |-> <<>>]

TexOff == tex = TexIdle

\* a RenderState that nothing has filled in
NoRenderState ==
    [MVP |-> ZeroMatrix, M |-> ZeroMatrix, Minv |-> ZeroMatrix,
     V |-> ZeroMatrix, P |-> ZeroMatrix, material |-> "", texture |-> "",
     lights |-> <<>>, wEye |-> vec3(Flt(0), Flt(0), Flt(0))]

\* no Render is running and none has run
RenderIdle ==
    [pc |-> "idle", i |-> 0, state |-> NoRenderState, local |-> NoRenderState,
     calls |-> <<>>, entered |-> SceneIdle]

RenderOff == render = RenderIdle

OffExceptDnum == SurfOff /\ ObjOff /\ FragOff /\ SceneOff /\ IdleOff /\ TexOff /\ RenderOff

OffExceptSurf == DnumOff /\ ObjOff /\ FragOff /\ SceneOff /\ IdleOff /\ TexOff /\ RenderOff

OffExceptObj == DnumOff /\ SurfOff /\ FragOff /\ SceneOff /\ IdleOff /\ TexOff /\ RenderOff

OffExceptFrag == DnumOff /\ SurfOff /\ ObjOff /\ SceneOff /\ IdleOff /\ TexOff /\ RenderOff

OffExceptScene == DnumOff /\ SurfOff /\ ObjOff /\ FragOff /\ IdleOff /\ TexOff /\ RenderOff

OffExceptIdle == DnumOff /\ SurfOff /\ ObjOff /\ FragOff /\ SceneOff /\ TexOff /\ RenderOff

OffExceptTex == DnumOff /\ SurfOff /\ ObjOff /\ FragOff /\ SceneOff /\ IdleOff /\ RenderOff

OffExceptFrame == DnumOff /\ SurfOff /\ ObjOff /\ FragOff /\ IdleOff /\ TexOff

SurfInit == surf = SurfIdle /\ OffExceptSurf

\* the constructor of a surface class, which calls create; once per surface
Construct ==
    /\ surf.kind = "none"
    /\ \E kind \in Kinds, N \in 1..MaxN, M \in 1..MaxM : surf' = create(kind, N, M)
    /\ UNCHANGED exceptSurf

Draw ==
    /\ surf.kind # "none"
    /\ surf' = [surf EXCEPT !.draws = DrawArrays(surf, 0), !.drawn = TRUE]
    /\ UNCHANGED exceptSurf

SurfNext == Construct \/ Draw

SpecSurf == SurfInit /\ [][SurfNext]_vars

\* the stream index (from 1) of the first vertex of column j in row i
StreamIndex(g, i, j) == i * 2 * (g.M + 1) + 2 * j + 1

(* C1: create(N, M) appends exactly N*(M+1)*2 vertices and sets nStrips = N *)
(* and nVtxPerStrip = (M+1)*2; a following Draw issues exactly N strip      *)
(* calls, the i-th at offset i*(M+1)*2 over (M+1)*2 vertices, so every      *)
(* vertex of the stream lies in exactly one call.                           *)
StripLayout ==
    surf.kind # "none" =>
        /\ Len(surf.vtxData) = surf.N * (surf.M + 1) * 2
        /\ surf.nStrips = surf.N
        /\ surf.nVtxPerStrip = (surf.M + 1) * 2
        /\ surf.drawn =>
            /\ Len(surf.draws) = surf.N
            /\ \A i \in 0..(surf.N - 1) :
                  surf.draws[i + 1] = [first |-> i * (surf.M + 1) * 2,
                                       count |-> (surf.M + 1) * 2]
            /\ \A k \in 0..(Len(surf.vtxData) - 1) :
                  Cardinality({c \in 1..Len(surf.draws) :
                      /\ surf.draws[c].first <= k
                      /\ k < surf.draws[c].first + surf.draws[c].count}) = 1

StripLayoutWitness ==
    /\ surf.drawn /\ surf.N = 3 /\ surf.M = 4
    /\ Len(surf.vtxData) = 30
    /\ surf.draws = <<[first |-> 0, count |-> 10], [first |-> 10, count |-> 10],
                      [first |-> 20, count |-> 10]>>

(* C2: in the stream of create(N, M), for every row i in 0..N-1 and column  *)
(* j in 0..M the vertex at index i*2*(M+1) + 2*j is the sample at           *)
(* (j/M, i/N) and the next one the sample at (j/M, (i+1)/N); the second     *)
(* vertex of column j in row i is the first vertex of column j in row i+1.  *)
StripOrder ==
    surf.kind # "none" =>
        \A i \in 0..(surf.N - 1), j \in 0..surf.M :
            LET k == StreamIndex(surf, i, j)
            IN  /\ k + 1 <= Len(surf.vtxData)
                /\ surf.vtxData[k] =
                      GenVertexData(surf.kind, Rat(j, surf.M), Rat(i, surf.N))
                /\ surf.vtxData[k].texcoord = vec2(Rat(j, surf.M), Rat(i, surf.N))
                /\ surf.vtxData[k + 1] =
                      GenVertexData(surf.kind, Rat(j, surf.M), Rat(i + 1, surf.N))
                /\ surf.vtxData[k + 1].texcoord =
                      vec2(Rat(j, surf.M), Rat(i + 1, surf.N))
                /\ i + 1 < surf.N =>
                      surf.vtxData[k + 1] = surf.vtxData[StreamIndex(surf, i + 1, j)]

StripOrderWitness ==
    /\ surf.kind = "Plane" /\ surf.N = 2 /\ surf.M = 3
    /\ surf.vtxData[StreamIndex(surf, 0, 1)].texcoord = vec2(Rat(1, 3), Flt(0))
    /\ surf.vtxData[StreamIndex(surf, 0, 1) + 1].texcoord = vec2(Rat(1, 3), Rat(1, 2))
    /\ surf.vtxData[StreamIndex(surf, 1, 1)].texcoord = vec2(Rat(1, 3), Rat(1, 2))

\* the parameters of the vertex at stream index k (from 1)
ParamsAt(g, k) ==
    LET i == (k - 1) \div (2 * (g.M + 1))
        r == (k - 1) % (2 * (g.M + 1))
    IN  vec2(Rat(r \div 2, g.M), Rat(i + (r % 2), g.N))

\* what C5 states of one vertex, given what eval left in U, V, X, Y, Z
SeededVertex(vtx, uv, e) ==
    /\ vtx.texcoord = uv
    /\ vtx.position = vec3(e.X.f, e.Y.f, e.Z.f)
    /\ vtx.normal = cross(vec3(e.X.d[1], e.Y.d[1], e.Z.d[1]),
                          vec3(e.X.d[2], e.Y.d[2], e.Z.d[2]))

(* C5: every vertex of the stream, the later ones included, has             *)
(* texcoord = (u,v), position = (X.f, Y.f, Z.f) and                         *)
(* normal = cross of the two gradient columns, not normalised, where X, Y,  *)
(* Z are what the mapping leaves when called on U = (u, (1,0)) and          *)
(* V = (v, (0,1)); what the mapping writes into U and V is not read back.   *)
VertexFromSeeds ==
    surf.kind # "none" =>
        \A k \in 1..Len(surf.vtxData) :
            SeededVertex(surf.vtxData[k], ParamsAt(surf, k),
                         eval(surf.kind,
                              Dnum(ParamsAt(surf, k)[1], vec2(Flt(1), Flt(0))),
                              Dnum(ParamsAt(surf, k)[2], vec2(Flt(0), Flt(1)))))

\* a sphere vertex past the first, where eval left U = 2*pi*u and V = pi*v and
\* the normal has length 18
VertexFromSeedsWitness ==
    /\ surf.kind = "Sphere" /\ surf.N = 2 /\ surf.M = 2
    /\ surf.vtxData[9].texcoord = vec2(Rat(1, 2), Rat(1, 2))
    /\ surf.vtxData[9].position = vec3(Flt(-1), Flt(0), Flt(0))
    /\ surf.vtxData[9].normal = vec3(Flt(18), Flt(0), Flt(0))
    /\ SphereEval(DnumOf(Rat(1, 2)), DnumOf(Rat(1, 2))).U.f = M_PI

---------------------------------------------------------------------------
(* The dual-number calculator: two operands, drawn once, and the operators *)
(* and elementary functions applied to them                                *)

MaxNum == 6         \* operand values n / 2 with |n| <= MaxNum: up to pi either way

Scalars == {Rat(n, 2) : n \in -MaxNum..MaxNum}

Exponents == {Flt(n) : n \in -1..3}

LeftOperands ==
    {Dnum(f, d) : f \in Scalars,
                  d \in {vec2(Flt(1), Flt(0)), vec2(Flt(-1), Rat(1, 2))}}

RightOperands == {Dnum(f, vec2(Flt(2), Flt(-1))) : f \in Scalars}

DnumInit ==
    /\ \E a \in LeftOperands, b \in RightOperands :
          dnum = [a |-> a, b |-> b, op |-> "none", n |-> Flt(0), val |-> DnumOf(Flt(0))]
    /\ OffExceptDnum

\* val = a op b, or val = fn(a); the operands are passed by value and only read
Apply(op, n, val) ==
    /\ dnum' = [dnum EXCEPT !.op = op, !.n = n, !.val = val]
    /\ UNCHANGED exceptDnum

OpAdd == Apply("+", Flt(0), DnumAdd(dnum.a, dnum.b))
OpSub == Apply("-", Flt(0), DnumSub(dnum.a, dnum.b))
OpMul == Apply("*", Flt(0), DnumMul(dnum.a, dnum.b))
OpDiv == Apply("/", Flt(0), DnumDiv(dnum.a, dnum.b))
CallExp == Apply("Exp", Flt(0), Exp(dnum.a))
CallSin == Apply("Sin", Flt(0), Sin(dnum.a))
CallCos == Apply("Cos", Flt(0), Cos(dnum.a))
CallTan == Apply("Tan", Flt(0), Tan(dnum.a))
CallSinh == Apply("Sinh", Flt(0), Sinh(dnum.a))
CallCosh == Apply("Cosh", Flt(0), Cosh(dnum.a))
CallTanh == Apply("Tanh", Flt(0), Tanh(dnum.a))
CallLog == Apply("Log", Flt(0), Log(dnum.a))
CallPow == \E n \in Exponents : Apply("Pow", n, Pow(dnum.a, n))

DnumNext ==
    \/ OpAdd \/ OpSub \/ OpMul \/ OpDiv
    \/ CallExp \/ CallSin \/ CallCos \/ CallTan
    \/ CallSinh \/ CallCosh \/ CallTanh \/ CallLog \/ CallPow

SpecDnum == DnumInit /\ [][DnumNext]_vars

(* C3: for dual numbers a = (fa, da) and b = (fb, db), a + b =              *)
(* (fa + fb, da + db), a - b = (fa - fb, da - db), a * b =                  *)
(* (fa fb, fa db + da fb) and, when fb # 0, a / b =                         *)
(* (fa / fb, (fb da - db fa) / fb^2); no operator changes its operands.     *)
DualArithmetic ==
    [][LET a == dnum.a
           b == dnum.b
           v == dnum'.val
           op == dnum'.op
       IN  /\ dnum'.a = a /\ dnum'.b = b
           /\ op = "+" =>
                 /\ v.f = RAdd(a.f, b.f)
                 /\ \A i \in 1..2 : v.d[i] = RAdd(a.d[i], b.d[i])
           /\ op = "-" =>
                 /\ v.f = RSub(a.f, b.f)
                 /\ \A i \in 1..2 : v.d[i] = RSub(a.d[i], b.d[i])
           /\ op = "*" =>
                 /\ v.f = RMul(a.f, b.f)
                 /\ \A i \in 1..2 :
                       v.d[i] = RAdd(RMul(a.f, b.d[i]), RMul(a.d[i], b.f))
           /\ (op = "/" /\ b.f # Flt(0)) =>
                 /\ v.f = RDiv(a.f, b.f)
                 /\ \A i \in 1..2 :
                       v.d[i] = RDiv(RSub(RMul(b.f, a.d[i]), RMul(b.d[i], a.f)),
                                     RMul(b.f, b.f))]_vars

\* a quotient of two dual numbers with non-zero gradients and a divisor # 1
DualArithmeticWitness ==
    /\ dnum.op = "/"
    /\ dnum.a = Dnum(Flt(2), vec2(Flt(-1), Rat(1, 2)))
    /\ dnum.b = Dnum(Rat(-1, 2), vec2(Flt(2), Flt(-1)))
    /\ dnum.val = Dnum(Flt(-4), vec2(Flt(-14), Flt(7)))


\* (h(f), h'(f) * d): the chain rule for a scalar function with value h and
\* derivative dh at g.f
ChainRule(h, dh, g) == Dnum(h, V2Scale(dh, g.d))

(* C4: every elementary function of a dual number g = (f, d) returns        *)
(* (h(f), h'(f) d): Exp, Sin, Cos, Sinh, Cosh, Log and Pow directly, with    *)
(* exp' = exp, sin' = cos, cos' = -sin, sinh' = cosh, cosh' = sinh,          *)
(* log' = 1 / f and (f^n)' = n f^(n-1); Tan and Tanh are the dual quotients  *)
(* Sin / Cos and Sinh / Cosh, whose gradients are (cos^2 + sin^2) / cos^2    *)
(* times d (d / cos^2 where sin^2 + cos^2 = 1) and d / cosh^2.               *)
ElementaryChainRule ==
    LET g == dnum.a
        f == dnum.a.f
        s == sinf(f)
        c == cosf(f)
        sh == sinhf(f)
        ch == coshf(f)
        one == Flt(1)
    IN  /\ dnum.op = "Exp" => dnum.val = ChainRule(expf(f), expf(f), g)
        /\ dnum.op = "Sin" => dnum.val = ChainRule(s, c, g)
        /\ dnum.op = "Cos" => dnum.val = ChainRule(c, RNeg(s), g)
        /\ dnum.op = "Sinh" => dnum.val = ChainRule(sh, ch, g)
        /\ dnum.op = "Cosh" => dnum.val = ChainRule(ch, sh, g)
        /\ dnum.op = "Log" => dnum.val = ChainRule(logf(f), RInv(f), g)
        /\ dnum.op = "Pow" =>
              dnum.val = ChainRule(powf(f, dnum.n),
                                   RMul(dnum.n, powf(f, RSub(dnum.n, one))), g)
        /\ dnum.op = "Tan" =>
              /\ dnum.val = ChainRule(RDiv(s, c),
                                      RDiv(RAdd(RMul(c, c), RMul(s, s)), RMul(c, c)), g)
              /\ RAdd(RMul(c, c), RMul(s, s)) = one =>
                    dnum.val.d = V2Scale(RInv(RMul(c, c)), g.d)
        /\ dnum.op = "Tanh" =>
              dnum.val = ChainRule(RDiv(sh, ch), RInv(RMul(ch, ch)), g)

\* Cos at pi / 2 of a dual number with gradient (-1, 1/2): value 0, gradient
\* -sin(pi / 2) * (-1, 1/2) = (1, -1/2)
ElementaryChainRuleWitness ==
    /\ dnum.op = "Cos"
    /\ dnum.a = Dnum(RDiv(M_PI, Flt(2)), vec2(Flt(-1), Rat(1, 2)))
    /\ dnum.val = Dnum(Flt(0), vec2(Flt(1), Rat(-1, 2)))


---------------------------------------------------------------------------
(* One Object: its fields are assigned (as onDisplay assigns them) and      *)
(* SetModelingTransform is called on it.                                    *)

Scales ==
    {vec3(Flt(1), Flt(1), Flt(1)), vec3(Flt(2), Flt(1), Rat(1, 2)),
     vec3(Flt(1), Flt(0), Flt(1))}

RotationAxes ==
    {vec3(Flt(0), Flt(0), Flt(0)), vec3(Flt(0), Flt(1), Flt(0)),
     vec3(Flt(0), Flt(3), Flt(4))}

RotationAngles == {Flt(0), RDiv(M_PI, Flt(2))}

Translations == {vec3(Flt(0), Flt(0), Flt(0)), vec3(Flt(1), Flt(-2), Flt(3))}

Points == {vec4(Flt(0), Flt(0), Flt(0), Flt(1)), vec4(Flt(1), Flt(2), Flt(-3), Flt(1))}

ObjInit == obj = Object /\ OffExceptObj

\* assignments to the public fields scale, rotationAxis, rotationAngle, translation
SetFields ==
    /\ \E s \in Scales, w \in RotationAxes, a \in RotationAngles, t \in Translations :
          obj' = [obj EXCEPT !.scale = s, !.rotationAxis = w,
                             !.rotationAngle = a, !.translation = t]
    /\ UNCHANGED exceptObj

SetModelingTransform ==
    /\ obj' = [obj EXCEPT !.M = ModelingM(obj), !.Minv = ModelingMinv(obj),
                          !.called = TRUE]
    /\ UNCHANGED exceptObj

ObjNext == SetFields \/ SetModelingTransform

SpecObj == ObjInit /\ [][ObjNext]_vars

NoZeroComponent(s) == s[1] # Flt(0) /\ s[2] # Flt(0) /\ s[3] # Flt(0)

(* C6: for any scale/rotation/translation triple whose scale has no zero    *)
(* component, SetModelingTransform leaves M = Scale * Rotate * Translate    *)
(* and Minv = Translate(-t) * Rotate(-angle) * Scale(1/scale), M * Minv is  *)
(* the identity and every point transformed by M and then by Minv is the    *)
(* point itself.                                                            *)
ModelingRoundTrip ==
    [][(SetModelingTransform /\ NoZeroComponent(obj.scale)) =>
          /\ obj'.M = MatMul(MatMul(ScaleMatrix(obj.scale),
                                    RotationMatrix(obj.rotationAngle, obj.rotationAxis)),
                             TranslateMatrix(obj.translation))
          /\ obj'.Minv =
                MatMul(MatMul(TranslateMatrix(V3Neg(obj.translation)),
                              RotationMatrix(RNeg(obj.rotationAngle), obj.rotationAxis)),
                       ScaleMatrix(vec3(RDiv(Flt(1), obj.scale[1]),
                                        RDiv(Flt(1), obj.scale[2]),
                                        RDiv(Flt(1), obj.scale[3]))))
          /\ MatMul(obj'.M, obj'.Minv) = Identity
          /\ \A p \in Points : VecMat(VecMat(p, obj'.M), obj'.Minv) = p]_vars

---------------------------------------------------------------------------
(* One GPU program in use at a time: Bind uploads the uniforms of a         *)
(* RenderState, then main runs on the vertices of the geometry drawn.       *)

MaxLights == 2      \* the light lists have 1..MaxLights lights

\* a positional light, and a directional one
LightPositions ==
    {vec4(Flt(5), Flt(5), Flt(4), Flt(1)), vec4(Flt(1), Flt(-2), Flt(3), Flt(0))}

LightLists == UNION {[1..n -> LightPositions] : n \in 1..MaxLights}

ShaderObjects ==
    {[Object EXCEPT !.rotationAxis = vec3(Flt(0), Flt(1), Flt(0)),
                    !.translation = vec3(Flt(0), Flt(-3), Flt(0))],
     [Object EXCEPT !.scale = vec3(Flt(2), Rat(1, 2), Flt(2)),
                    !.rotationAxis = vec3(Flt(0), Flt(1), Flt(0)),
                    !.rotationAngle = RDiv(M_PI, Flt(2)),
                    !.translation = vec3(Flt(1), Flt(2), Flt(3))]}

\* the RenderState Object::Draw hands to Bind, with V * P the identity
RenderStateOf(M, Minv, lights) ==
    [M |-> M, Minv |-> Minv, MVP |-> M,
     wEye |-> vec3(Flt(8), Flt(3), Flt(8)), lights |-> lights]

RenderStates ==
    {RenderStateOf(ModelingM(o), ModelingMinv(o), ls) : o \in ShaderObjects, ls \in LightLists}

VertexPositions ==
    {vec3(Flt(0), Flt(0), Flt(0)), vec3(Flt(1), Flt(0), Flt(0)),
     vec3(Flt(-1), Rat(1, 2), Flt(0)), vec3(Flt(0), Flt(1), Flt(-1))}

VertexNormal == vec3(Flt(0), Flt(1), Flt(0))

FragInit == frag = FragIdle /\ OffExceptFrag

GouraudBind ==
    /\ \E state \in RenderStates : frag' = BindLights("Gouraud", state)
    /\ UNCHANGED exceptFrag

PhongBind ==
    /\ \E state \in RenderStates : frag' = BindLights("Phong", state)
    /\ UNCHANGED exceptFrag

NPRBind ==
    /\ \E state \in RenderStates : frag' = BindFirstLight("NPR", state)
    /\ UNCHANGED exceptFrag

\* the program in use runs on one vertex of the geometry drawn
RunGouraud ==
    /\ frag.shader = "Gouraud"
    /\ \E vtxPos \in VertexPositions : frag' = GouraudMain(frag, vtxPos, VertexNormal)
    /\ UNCHANGED exceptFrag

RunPhong ==
    /\ frag.shader = "Phong"
    /\ \E vtxPos \in VertexPositions : frag' = PhongMain(frag, vtxPos, VertexNormal)
    /\ UNCHANGED exceptFrag

RunNPR ==
    /\ frag.shader = "NPR"
    /\ \E vtxPos \in VertexPositions : frag' = NPRMain(frag, vtxPos, VertexNormal)
    /\ UNCHANGED exceptFrag

FragNext == GouraudBind \/ PhongBind \/ NPRBind \/ RunGouraud \/ RunPhong \/ RunNPR

SpecFrag == FragInit /\ [][FragNext]_vars

\* lightPos.xyz * wPos.w - wPos.xyz * lightPos.w, component by component
HomogeneousDifference(lightPos, wPos) ==
    [k \in 1..3 |-> RSub(RMul(lightPos[k], wPos[4]), RMul(wPos[k], lightPos[4]))]

(* C7: whichever of the three programs ran, the light vector of every light *)
(* it uploaded is lightPos.xyz * wPos.w - wPos.xyz * lightPos.w; for a      *)
(* light with w = 0 the vector does not change from one vertex to the next  *)
(* under the same uniforms, and for a light with w = 1 and wPos.w = 1 it is *)
(* lightPos.xyz - wPos.xyz.                                                 *)
LightVectorFormula ==
    [][frag'.ran =>
          /\ Len(frag'.wLight) = Len(frag'.lights)
          /\ \A i \in 1..Len(frag'.wLight) :
                /\ frag'.wLight[i] = HomogeneousDifference(frag'.lights[i], frag'.wPos)
                /\ (frag'.lights[i][4] = Flt(1) /\ frag'.wPos[4] = Flt(1)) =>
                      frag'.wLight[i] =
                          [k \in 1..3 |-> RSub(frag'.lights[i][k], frag'.wPos[k])]
                /\ (frag'.lights[i][4] = Flt(0) /\ frag.ran) =>
                      frag'.wLight[i] = frag.wLight[i]]_vars

\* the NPR program on a directional light, at a vertex away from the origin
LightVectorFormulaWitness ==
    /\ frag.shader = "NPR" /\ frag.ran
    /\ frag.lights = <<vec4(Flt(1), Flt(-2), Flt(3), Flt(0))>>
    /\ frag.vtxPos = vec3(Flt(-1), Rat(1, 2), Flt(0))
    /\ frag.wPos = vec4(Flt(1), Rat(9, 4), Flt(5), Flt(1))
    /\ frag.wLight = <<vec3(Flt(1), Flt(-2), Flt(3))>>

---------------------------------------------------------------------------
(* The program: onInitialization, then onDisplay and onIdle as GLUT calls   *)
(* them while its clock advances, until the process exits.                  *)

TickMs == 1500      \* the clock advances in steps of 1.5 s, a quarter turn

MaxTicks == 3       \* the clock stops after MaxTicks steps

\* an Object::Animate that turns the object by the time passed
ObjectAnimateTurning(o, tstart, tend) ==
    [o EXCEPT !.rotationAngle = RAdd(@, RSub(tend, tstart))]

\* Object::Animate is empty
ObjectAnimate(o, tstart, tend) == o

\* Scene::Animate
SceneAnimate(sc, tstart, tend) ==
    [sc EXCEPT !.objects = [i \in 1..Len(sc.objects) |->
                               ObjectAnimate(sc.objects[i], tstart, tend)]]

\* the loop of onIdle from t on, dt = 0.1
RECURSIVE IdleLoop(_, _, _)
IdleLoop(sc, t, tend) ==
    IF RLess(t, tend)
    THEN IdleLoop(SceneAnimate(sc, t, RAdd(t, Min(Rat(1, 10), RSub(tend, t)))),
                  RAdd(t, Rat(1, 10)), tend)
    ELSE sc

SceneInit == scene = SceneIdle /\ gpu = GpuIdle /\ glut = GlutIdle /\ OffExceptScene

onInitialization ==
    /\ ~scene.built /\ ~glut.exited
    /\ scene' = Build(scene)
    /\ gpu' = [gpu EXCEPT !.resources = @ \cup BuildResources]
    /\ UNCHANGED <<glut, exceptScene>>

\* time passes
Tick ==
    /\ ~glut.exited /\ glut.elapsed + TickMs <= MaxTicks * TickMs
    /\ glut' = [glut EXCEPT !.elapsed = @ + TickMs]
    /\ UNCHANGED <<scene, gpu, exceptScene>>

onDisplay ==
    /\ scene.built /\ ~glut.exited
    /\ glut' = [glut EXCEPT !.redisplay = FALSE]
    /\ gpu' = [gpu EXCEPT !.draws = Render(scene)]
    /\ scene' = DisplayUpdate(scene, RDiv(Flt(glut.elapsed), Flt(1000)))
    /\ UNCHANGED exceptScene

onIdle ==
    /\ scene.built /\ ~glut.exited
    /\ scene' = IdleLoop(scene, glut.tend, RDiv(Flt(glut.elapsed), Flt(1000)))
    /\ glut' = [glut EXCEPT !.tend = RDiv(Flt(glut.elapsed), Flt(1000)),
                            !.redisplay = TRUE]
    /\ UNCHANGED <<gpu, exceptScene>>

\* the process ends: the global scene is destroyed, its two vectors with it;
\* nothing is deleted through the pointers the vector of objects holds
Exit ==
    /\ ~glut.exited
    /\ glut' = [glut EXCEPT !.exited = TRUE]
    /\ scene' = [scene EXCEPT !.objects = <<>>, !.lights = <<>>]
    /\ UNCHANGED <<gpu, exceptScene>>

SceneNext == onInitialization \/ Tick \/ onDisplay \/ onIdle \/ Exit

SpecScene == SceneInit /\ [][SceneNext]_vars

\* the size of the lights array of the Gouraud and Phong programs
ShaderLightSlots == 8

\* the indices (from 0) of scene.objects and of scene.lights that onDisplay uses
DisplayObjectIndices == 0..8

DisplayLightIndices == {0}

(* C8: once Build has run and until the process exits, whatever onDisplay   *)
(* and onIdle calls were made, the scene holds 9 objects and 3 lights, at   *)
(* most 8; every index onDisplay uses is in range; and every Bind of the    *)
(* latest Render uploaded an nLights of at most 8 that is the number of     *)
(* lights it uploaded.                                                      *)
SceneCardinality ==
    (scene.built /\ ~glut.exited) =>
        /\ Len(scene.objects) = 9
        /\ Len(scene.lights) = 3
        /\ Len(scene.lights) <= ShaderLightSlots
        /\ \A i \in DisplayObjectIndices : i < Len(scene.objects)
        /\ \A i \in DisplayLightIndices : i < Len(scene.lights)
        /\ \A k \in 1..Len(gpu.draws) :
              /\ gpu.draws[k].bound.nLights <= ShaderLightSlots
              /\ gpu.draws[k].bound.nLights = Len(gpu.draws[k].bound.lights)

\* two frames and an onIdle later: the second Render has drawn the nine objects
\* with the light that the first onDisplay moved
SceneCardinalityWitness ==
    /\ scene.built /\ ~glut.exited /\ glut.redisplay
    /\ glut.elapsed = 3000 /\ glut.tend = Flt(3)
    /\ Len(gpu.draws) = 9
    /\ gpu.draws[9].bound.nLights = 3
    /\ gpu.draws[9].bound.lights[1].wLightPos # BuildLights[1].wLightPos
    /\ scene.objects[9].rotationAngle = Flt(3)

(* C10: when the process has exited, every GPU resource the program created *)
(* has been released exactly once; and no draw uses a released resource.    *)
ResourcesReleasedOnce ==
    /\ glut.exited => \A r \in gpu.resources : r.released = 1
    /\ \A k \in 1..Len(gpu.draws) :
          \A r \in gpu.resources :
              (r.owner \in {gpu.draws[k].geometry, gpu.draws[k].bound.shader,
                            gpu.draws[k].bound.texture}) => r.released = 0

---------------------------------------------------------------------------
(* onIdle, one loop iteration at a time.                                    *)

MaxCalls == 3       \* onIdle calls in a run

MaxSteps == 12      \* loop iterations counted in one call

\* clock times (ms) at which an earlier onIdle call has returned: the start of
\* the program, about an hour in, and one second short of 2^21 seconds
IdleStarts == {0, 4000000, 2097151000}

\* the time (ms) between two onIdle calls
IdleGaps == {0, 30, 250, 1000}

IdleInit == (\E start \in IdleStarts : idle = IdleAt(start)) /\ OffExceptIdle

\* onIdle up to the loop: tstart = tend; tend = the clock; t = tstart
IdleEnter ==
    /\ idle.pc = "out" /\ idle.calls < MaxCalls
    /\ \E gap \in IdleGaps :
          idle' = [idle EXCEPT !.elapsed = @ + gap,
                               !.tstart = idle.tend,
                               !.tend = Seconds(idle.elapsed + gap),
                               !.t = idle.tend,
                               !.n = 0, !.last = NoStep,
                               !.calls = @ + 1,
                               !.pc = "loop"]
    /\ UNCHANGED exceptIdle

\* one iteration: Dt = fmin(dt, tend - t); scene.Animate(t, t + Dt), which
\* changes nothing; t += dt
IdleStep ==
    /\ idle.pc = "loop" /\ F32Less(idle.t, idle.tend) /\ idle.n < MaxSteps
    /\ idle' = [idle EXCEPT !.last =
                                [start |-> idle.t,
                                 Dt |-> F32Min(dt, F32Sub(idle.tend, idle.t)),
                                 end |-> F32Add(idle.t,
                                                F32Min(dt, F32Sub(idle.tend, idle.t)))],
                            !.t = F32Add(idle.t, dt),
                            !.n = @ + 1]
    /\ UNCHANGED exceptIdle

\* the loop is left: glutPostRedisplay()
IdleReturn ==
    /\ idle.pc = "loop" /\ ~F32Less(idle.t, idle.tend)
    /\ idle' = [idle EXCEPT !.pc = "out", !.redisplay = TRUE]
    /\ UNCHANGED exceptIdle

\* GLUT calls onDisplay for the posted redisplay
IdleDisplayed ==
    /\ idle.pc = "out" /\ idle.redisplay
    /\ idle' = [idle EXCEPT !.redisplay = FALSE]
    /\ UNCHANGED exceptIdle

IdleNext == IdleEnter \/ IdleStep \/ IdleReturn \/ IdleDisplayed

SpecIdle == IdleInit /\ [][IdleNext]_vars

(* C9: in each onIdle call the sub-steps have 0 < Dt <= 0.1, the first      *)
(* starts at the timestamp of the previous call, each next one starts where *)
(* the previous ended, every sub-step moves the loop forward (so the        *)
(* sequence is finite), the last ends exactly at the current time, none is  *)
(* made when the two times are equal, and the call ends by requesting a      *)
(* redisplay.                                                               *)
IdleSubSteps ==
    [][/\ (idle.pc = "loop" /\ idle'.pc = "loop") =>
            /\ F32Less(F32Zero, idle'.last.Dt)
            /\ ~F32Less(dt, idle'.last.Dt)
            /\ idle'.last.start = (IF idle.n = 0 THEN idle.tstart ELSE idle.last.end)
            /\ F32Less(idle.t, idle'.t)
       /\ (idle.pc = "loop" /\ idle'.pc = "out") =>
            /\ idle'.redisplay
            /\ (idle.tend = idle.tstart) => idle.n = 0
            /\ (idle.n > 0) => idle.last.end = idle.tend]_vars

---------------------------------------------------------------------------
(* CheckerBoardTexture's constructor, one pixel at a time.  The image is   *)
(* indexed from 0 as the std::vector is; writes counts the assignments to   *)
(* each element, and overrun records an assignment outside the vector.      *)

MaxWidth == 4       \* texture widths 1..MaxWidth

MaxHeight == 8      \* texture heights 1..MaxHeight

\* const vec4 yellow(1, 1, 0, 1), blue(0, 0, 1, 1)
yellow == vec4(Flt(1), Flt(1), Flt(0), Flt(1))

blue == vec4(Flt(0), Flt(0), Flt(1), Flt(1))

\* (x & 1) ^ (y & 1) ? yellow : blue
CheckerColour(x, y) == IF ((x % 2) + (y % 2)) % 2 # 0 THEN yellow ELSE blue

\* the mistaken index x * width + y
PixelIndexTransposed(x, y, width) == x * width + y

\* y * width + x
PixelIndex(x, y, width) == y * width + x

TexInit == tex = TexIdle /\ OffExceptTex

\* std::vector<vec4> image(width * height): value-initialised elements
TexAllocate ==
    /\ tex.pc = "off"
    /\ \E width \in 1..MaxWidth, height \in 1..MaxHeight :
          tex' = [tex EXCEPT !.pc = "loop", !.width = width, !.height = height,
                             !.x = 0, !.y = 0,
                             !.image = [i \in 0..(width * height - 1) |->
                                           vec4(Flt(0), Flt(0), Flt(0), Flt(0))],
                             !.writes = [i \in 0..(width * height - 1) |-> 0]]
    /\ UNCHANGED exceptTex

\* the assignment image[index] = colour
TexAssign(t, index, colour) ==
    IF index \in DOMAIN t.image
    THEN [t EXCEPT !.image[index] = colour, !.writes[index] = @ + 1]
    ELSE [t EXCEPT !.overrun = TRUE]

\* y++, and x++ with y = 0 again when the inner loop is over
TexAdvance(t) ==
    IF t.y + 1 < t.height THEN [t EXCEPT !.y = @ + 1]
    ELSE [t EXCEPT !.x = @ + 1, !.y = 0]

\* one iteration of the inner loop
TexWrite ==
    /\ tex.pc = "loop" /\ tex.x < tex.width /\ tex.y < tex.height
    /\ tex' = TexAdvance(TexAssign(tex, PixelIndex(tex.x, tex.y, tex.width),
                                   CheckerColour(tex.x, tex.y)))
    /\ UNCHANGED exceptTex

\* create(width, height, image, GL_NEAREST)
TexCreate ==
    /\ tex.pc = "loop" /\ ~(tex.x < tex.width)
    /\ tex' = [tex EXCEPT !.pc = "created", !.created = tex.image]
    /\ UNCHANGED exceptTex

TexNext == TexAllocate \/ TexWrite \/ TexCreate

SpecTex == TexInit /\ [][TexNext]_vars

\* the loop has been at pixel (px, py)
Visited(px, py) == px < tex.x \/ (px = tex.x /\ py < tex.y)

(* C11: the constructor writes each pixel (x, y) of the width x height      *)
(* image exactly once, at index y * width + x, which is inside the image,   *)
(* yellow when x + y is odd and blue when it is even; the pixels not yet    *)
(* reached have not been written, and the finished image is what is created.*)
CheckerBoard ==
    tex.pc # "off" =>
        /\ ~tex.overrun
        /\ \A px \in 0..(tex.width - 1), py \in 0..(tex.height - 1) :
              /\ py * tex.width + px \in 0..(tex.width * tex.height - 1)
              /\ tex.writes[py * tex.width + px] = (IF Visited(px, py) THEN 1 ELSE 0)
              /\ Visited(px, py) =>
                    tex.image[py * tex.width + px] =
                        (IF (px + py) % 2 = 1 THEN yellow ELSE blue)
        /\ tex.pc = "created" =>
              /\ \A i \in DOMAIN tex.writes : tex.writes[i] = 1
              /\ tex.created = tex.image

\* the 4 x 8 texture of Scene::Build is finished, with both colours in it
CheckerBoardWitness ==
    /\ tex.pc = "created" /\ tex.width = 4 /\ tex.height = 8
    /\ tex.created[0] = blue /\ tex.created[1] = yellow /\ tex.created[4] = yellow

---------------------------------------------------------------------------
(* onDisplay with Scene::Render call by call: render.state is the local     *)
(* RenderState of Render, render.local the parameter of the Object::Draw in *)
(* progress, render.i the index (from 0) of the object the loop is at,      *)
(* render.calls the Bind and Draw calls of the latest Render in the order   *)
(* they were made, and render.entered the scene as that Render found it.    *)

FrameInit ==
    /\ scene = SceneIdle /\ gpu = GpuIdle /\ glut = GlutIdle /\ render = RenderIdle
    /\ OffExceptFrame

\* onDisplay up to the loop of Render: state is filled from the camera and
\* the lights
RenderEnter ==
    /\ scene.built /\ ~glut.exited /\ render.pc = "idle"
    /\ render' = [render EXCEPT !.pc = "loop", !.i = 0, !.calls = <<>>,
                                !.state = RenderState(scene),
                                !.local = NoRenderState,
                                !.entered = scene]
    /\ UNCHANGED <<scene, gpu, glut, exceptFrame>>

\* obj->Draw(state) up to the call of Bind: the parameter is a copy of state
\* in which M, Minv, MVP, material and texture are set
DrawEnter ==
    /\ render.pc = "loop" /\ render.i < Len(scene.objects)
    /\ render' = [render EXCEPT !.pc = "bind",
                                !.local = DrawState(scene.objects[render.i + 1],
                                              render.state,
                                              ModelingM(scene.objects[render.i + 1]),
                                              ModelingMinv(scene.objects[render.i + 1]))]
    /\ UNCHANGED <<scene, gpu, glut, exceptFrame>>

\* shader->Bind(state)
DrawBindCall ==
    /\ render.pc = "bind"
    /\ render' = [render EXCEPT !.pc = "draw",
                                !.calls = Append(@,
                                    [call |-> "Bind", object |-> render.i,
                                     uniforms |-> Bind(scene.objects[render.i + 1].shader,
                                                       render.local)])]
    /\ UNCHANGED <<scene, gpu, glut, exceptFrame>>

\* the caller's state if Draw took its parameter by reference
StateAfterDrawByReference(state, local) == local

\* the caller's state when Draw returns: Draw(RenderState state) worked on a copy
StateAfterDraw(state, local) == state

\* geometry->Draw(), the return of Object::Draw and the step of the loop
DrawGeometryCall ==
    /\ render.pc = "draw"
    /\ render' = [render EXCEPT !.pc = "loop", !.i = @ + 1,
                                !.state = StateAfterDraw(render.state, render.local),
                                !.calls = Append(@,
                                    [call |-> "Draw", object |-> render.i,
                                     geometry |-> scene.objects[render.i + 1].geometry,
                                     strips |-> DrawArrays(GeometryNamed(
                                         scene.objects[render.i + 1].geometry), 0)])]
    /\ UNCHANGED <<scene, gpu, glut, exceptFrame>>

\* the loop of Render is over: Render returns and onDisplay goes on to its
\* end, reading the clock and placing the objects, light 0 and the eye
RenderLeave ==
    /\ render.pc = "loop" /\ ~(render.i < Len(scene.objects))
    /\ render' = [render EXCEPT !.pc = "idle"]
    /\ scene' = DisplayUpdate(scene, RDiv(Flt(glut.elapsed), Flt(1000)))
    /\ glut' = [glut EXCEPT !.redisplay = FALSE]
    /\ UNCHANGED <<gpu, exceptFrame>>

FrameNext ==
    \/ onInitialization \/ Tick
    \/ RenderEnter \/ DrawEnter \/ DrawBindCall \/ DrawGeometryCall \/ RenderLeave

SpecFrame == FrameInit /\ [][FrameNext]_vars

\* the object (of the scene as it is now) that call k of the log was made for
CallObject(k) == scene.objects[render.calls[k].object + 1]

\* Render is running and call k is its latest call, or its loop is over: the
\* log only grows and the scene is the one every call so far was made under
Settled(k) ==
    \/ render.pc = "draw" /\ k = Len(render.calls)
    \/ render.pc = "loop" /\ (k = Len(render.calls) \/ render.i = Len(scene.objects))

\* call k of the log is the Bind of the object at index i (from 0) with the
\* uniforms Object::Draw computes for it from the scene as it is now
IsBindOf(k, i) ==
    /\ render.calls[k].call = "Bind" /\ render.calls[k].object = i
    /\ Settled(k) =>
          /\ render.calls[k].uniforms.shader = CallObject(k).shader
          /\ render.calls[k].uniforms.M = ModelingM(CallObject(k))
          /\ render.calls[k].uniforms.Minv = ModelingMinv(CallObject(k))
          /\ render.calls[k].uniforms.MVP =
                 MatMul(MatMul(ModelingM(CallObject(k)), CameraV(scene.camera)),
                        CameraP(scene.camera))
          /\ render.calls[k].uniforms.material = CallObject(k).material
          /\ render.calls[k].uniforms.texture = CallObject(k).texture

\* call k of the log is the Draw of the geometry of the object at index i
IsDrawOf(k, i) ==
    /\ render.calls[k].call = "Draw" /\ render.calls[k].object = i
    /\ Settled(k) => render.calls[k].geometry = CallObject(k).geometry

(* C12: the calls of a Render are Bind, Draw, Bind, Draw, ...: the Bind and *)
(* then the Draw of object 0, of object 1, and so on in the order of        *)
(* scene.objects, each object once and nothing in between; each Bind        *)
(* uploads the object's own shader's uniforms with M and Minv of that       *)
(* object's current transform, MVP = M * V * P and the object's material    *)
(* and texture; a finished Render has made the two calls for every object.  *)
RenderOrder ==
    /\ Len(render.calls) = 2 * render.i + (IF render.pc = "draw" THEN 1 ELSE 0)
    /\ \A k \in 1..Len(render.calls) :
          IF k % 2 = 1 THEN IsBindOf(k, (k - 1) \div 2) ELSE IsDrawOf(k, (k - 2) \div 2)
    /\ (render.pc = "idle" /\ scene.built /\ render.calls # <<>>) =>
          Len(render.calls) = 2 * Len(scene.objects)
    /\ (render.pc = "loop" /\ render.i = Len(scene.objects)) =>
          {render.calls[k].object : k \in 1..Len(render.calls)} = 0..(Len(scene.objects) - 1)

\* the second Render, of the scene placed at 1.5 s, has made its eighteen
\* calls, the last two for the paraboloid with its own material
RenderOrderWitness ==
    /\ render.pc = "loop" /\ render.i = 9 /\ Len(render.calls) = 18
    /\ scene.objects[9].rotationAngle = Rat(3, 2)
    /\ render.calls[17].call = "Bind" /\ render.calls[17].uniforms.material = "material1"
    /\ render.calls[1].uniforms.material = "material0"
    /\ render.calls[18].call = "Draw" /\ render.calls[18].geometry = "paraboloid"

---------------------------------------------------------------------------
(* The frames of SpecScene: what a Render draws and who writes the scene.   *)

ZeroVector == vec3(Flt(0), Flt(0), Flt(0))

\* no Render has run yet: the next onDisplay is the first frame
FirstFrame == gpu.draws = <<>>

(* C13: every onDisplay draws the scene as it was before that call: the M   *)
(* of each object's transform, the eye and the lights it found, which are  *)
(* those the previous onDisplay (or Build) left, since between two          *)
(* onDisplay calls nothing changes the scene and onIdle in particular       *)
(* leaves it as it is.  The first frame finds every object with             *)
(* translation (0,0,0), angle 0 and axis (0,0,0) and the eye and lights of  *)
(* Build; every later frame finds every object with a non-zero axis.        *)
RenderBeforeUpdate ==
    [][/\ onDisplay =>
            /\ Len(gpu'.draws) = Len(scene.objects)
            /\ \A k \in 1..Len(scene.objects) :
                  /\ gpu'.draws[k].bound.M = ModelingM(scene.objects[k])
                  /\ gpu'.draws[k].bound.Minv = ModelingMinv(scene.objects[k])
                  /\ gpu'.draws[k].bound.wEye = scene.camera.wEye
                  /\ gpu'.draws[k].bound.lights = scene.lights
                  /\ FirstFrame =>
                        /\ scene.objects[k].translation = ZeroVector
                        /\ scene.objects[k].rotationAngle = Flt(0)
                        /\ scene.objects[k].rotationAxis = ZeroVector
                  /\ ~FirstFrame => scene.objects[k].rotationAxis # ZeroVector
            /\ FirstFrame => (scene.camera = BuildCamera /\ scene.lights = BuildLights)
       /\ onIdle => scene' = scene
       /\ (scene.built /\ ~glut'.exited /\ scene' # scene) => onDisplay]_vars

\* the clock is at 3 s, onIdle has run, and the scene placed for 3 s is not
\* the one on screen: the latest Render drew the joint turned for 1.5 s
RenderBeforeUpdateWitness ==
    /\ scene.built /\ ~glut.exited /\ ~FirstFrame
    /\ glut.tend = Flt(3) /\ scene.objects[5].rotationAngle = Flt(3)
    /\ gpu.draws[5].bound.M # ModelingM(scene.objects[5])
    /\ gpu.draws[5].bound.M =
           ModelingM([scene.objects[5] EXCEPT !.rotationAngle = Rat(3, 2)])

\* the image of the local point (x, y, z) under the model matrix of
\* scene.objects[i] (i from 0)
JointImage(i, x, y, z) == Image(x, y, z, ModelingM(scene.objects[i + 1]))

\* the translation of scene.objects[i] (i from 0)
TranslationOf(i) == scene.objects[i + 1].translation

(* C14: once onDisplay has run, the chain is attached joint to joint:       *)
(* objects[4] sits at objects[3]'s translation (0,-3,0); objects[5] at the  *)
(* image of (0,1,0) under objects[4]'s model matrix; objects[6] at          *)
(* objects[5]'s translation; objects[7] at the image of (0,1,0) under       *)
(* objects[6]'s model matrix; objects[8] at objects[7]'s translation; light *)
(* 0 is at the image of (0,0.6,0) under objects[8]'s model matrix with      *)
(* w = 1; lights 1 and 2 are as Build set them.                             *)
ChainAttached ==
    (scene.built /\ ~glut.exited /\ ~FirstFrame) =>
        /\ TranslationOf(3) = vec3(Flt(0), Flt(-3), Flt(0))
        /\ TranslationOf(4) = TranslationOf(3)
        /\ TranslationOf(5) = JointImage(4, Flt(0), Flt(1), Flt(0))
        /\ TranslationOf(6) = TranslationOf(5)
        /\ TranslationOf(7) = JointImage(6, Flt(0), Flt(1), Flt(0))
        /\ TranslationOf(8) = TranslationOf(7)
        /\ xyz(scene.lights[1].wLightPos) = JointImage(8, Flt(0), Rat(3, 5), Flt(0))
        /\ scene.lights[1].wLightPos[4] = Flt(1)
        /\ scene.lights[2] = BuildLights[2]
        /\ scene.lights[3] = BuildLights[3]

\* the chain placed for 1.5 s: the first arm is turned, so the second joint
\* is not straight above the base, and the light has left its place of Build
ChainAttachedWitness ==
    /\ scene.built /\ ~glut.exited /\ ~FirstFrame
    /\ scene.objects[5].rotationAngle = Rat(3, 2)
    /\ TranslationOf(5) # vec3(Flt(0), Flt(-1), Flt(0))
    /\ TranslationOf(7) # TranslationOf(5)
    /\ scene.lights[1].wLightPos # BuildLights[1].wLightPos

\* while a Render runs: its state is the one filled in at its start from the
\* camera and the lights, untouched by the Draws so far; the parameter of the
\* Draw in progress has that V, P, eye and light list; and so has every Bind
SharedState ==
    /\ render.state = RenderState(scene)
    /\ render.pc \in {"bind", "draw"} =>
          /\ render.local.V = render.state.V /\ render.local.P = render.state.P
          /\ render.local.wEye = scene.camera.wEye
          /\ render.local.lights = scene.lights
    /\ \A k \in 1..Len(render.calls) :
          render.calls[k].call = "Bind" =>
              /\ render.calls[k].uniforms.wEye = scene.camera.wEye
              /\ render.calls[k].uniforms.lights = scene.lights
              /\ render.calls[k].uniforms.nLights = Len(scene.lights)

(* C15: from the start of a Render to its end every object is bound with    *)
(* the V, P, eye and light list taken from the camera and scene.lights at   *)
(* the start; what a Draw sets in its copy of the state (M, Minv, MVP,      *)
(* material, texture) never shows in Render's own state, which the next     *)
(* object receives; and the scene is still as the Render found it.          *)
RenderStateByValue ==
    render.pc # "idle" => (scene = render.entered /\ SharedState)

\* the last Draw of a Render is about to bind: its copy of the state has the
\* paraboloid's matrix and material, Render's own state has neither
RenderStateByValueWitness ==
    /\ render.pc = "bind" /\ render.i = 8 /\ Len(render.calls) = 16
    /\ render.local.material = "material1" /\ render.state.material = ""
    /\ render.local.M # render.state.M /\ render.state.M = ZeroMatrix
    /\ render.calls[15].uniforms.material = "material0"

=============================================================================
